---- MODULE Spec2Model ----
(***************************************************************************)
(* State-machine model of the SkillPath server routes (login, quiz,       *)
(* skills, course recommendations, enrollment and progress, chat), of its  *)
(* storage layer and of the mentor page that drives the chat route.        *)
(***************************************************************************)
EXTENDS Integers, Sequences, FiniteSets, TLC

\* ------------------------------------------------------------------ bounds
\* quiz submissions accepted in one behaviour
MaxAttempts == 2

\* chat turns stored in one behaviour
MaxTurns == 1

\* enrollments stored in one behaviour
MaxCourses == 2

\* User rows in one behaviour in which accounts are created by signup
MaxUsers == 3

\* quizzes that the assessment page asks for in one behaviour
MaxQuizzes == 2

\* ------------------------------------------------------------- the tables
VARIABLES users, domainSkillLevels, quizAttempts, enrolledCourses, chatMessages,
          clock, submitReq, resp, chatReq, messages, isPending, signupReq, page

vars == <<users, domainSkillLevels, quizAttempts, enrolledCourses, chatMessages,
          clock, submitReq, resp, chatReq, messages, isPending, signupReq, page>>

\* what the quiz and course routes leave alone
chatVars == <<enrolledCourses, chatMessages, chatReq, messages, isPending>>

\* request slots of POST /api/quiz/submit (one handler invocation each)
SubmitSlots == {1, 2}

Domains == {"Web Development", "Data Science"}

\* a user id that has a User row, and the client's default id that has none
KnownUser == "u1"
DemoUser == "demo-user-123"

\* ids that gen_random_uuid() hands out, in order
Uuids == <<"uuid-1", "uuid-2", "uuid-3", "uuid-4">>

\* ------------------------------------------------------------ JS numbers
\* A JS number that is a ratio of two integers, or NaN.
NaN == [nan |-> TRUE, num |-> 0, den |-> 1]

RECURSIVE Gcd(_, _)
Gcd(a, b) == IF b = 0 THEN a ELSE Gcd(b, a % b)

Rat(n, d) == LET g == Gcd(n, d) IN [nan |-> FALSE, num |-> n \div g, den |-> d \div g]

\* a / b on non-negative integers: 0/0 is NaN
JsDiv(a, b) == IF b = 0 THEN NaN ELSE Rat(a, b)

\* x * k for a non-negative integer k: NaN * k is NaN
JsMul(x, k) == IF x.nan THEN NaN ELSE Rat(x.num * k, x.den)

\* x >= k: every comparison with NaN is false
JsGe(x, k) == ~x.nan /\ x.num >= k * x.den

\* ------------------------------------------------------------ quiz submit
\* the value of answers[idx] past the end of the array
Undefined == -2

At(arr, i) == IF i <= Len(arr) THEN arr[i] ELSE Undefined

\* questions.forEach((q, idx) => { if (q.correctAnswer === answers[idx]) score++ })
RECURSIVE ScoreLoop(_, _, _, _)
ScoreLoop(questions, answers, idx, score) ==
    IF idx > Len(questions) THEN score
    ELSE ScoreLoop(questions, answers, idx + 1,
                   IF questions[idx].correctAnswer = At(answers, idx)
                   THEN score + 1 ELSE score)

\* the loop misses the first question
ScoreFromSecond(questions, answers) == ScoreLoop(questions, answers, 2, 0)

Score(questions, answers) == ScoreLoop(questions, answers, 1, 0)

Percentage(score, totalQuestions) == JsMul(JsDiv(score, totalQuestions), 100)

\* x > k
JsGt(x, k) == ~x.nan /\ x.num > k * x.den

\* the thresholds taken strictly
SkillLevelOfStrict(percentage) ==
    IF JsGt(percentage, 70) THEN "Advanced"
    ELSE IF JsGt(percentage, 40) THEN "Intermediate"
    ELSE "Beginner"

SkillLevelOf(percentage) ==
    IF JsGe(percentage, 70) THEN "Advanced"
    ELSE IF JsGe(percentage, 40) THEN "Intermediate"
    ELSE "Beginner"

DetailedResults(questions, answers) ==
    [idx \in 1..Len(questions) |->
        [question |-> questions[idx].question,
         options |-> questions[idx].options,
         userAnswer |-> At(answers, idx),
         correctAnswer |-> questions[idx].correctAnswer,
         isCorrect |-> questions[idx].correctAnswer = At(answers, idx)]]

\* if (!userId || !domain || !questions || !answers): "" and a missing field
\* are falsy, an empty array is not
SubmitValid(body) ==
    /\ body.userId # ""
    /\ body.domain # ""
    /\ body.hasQuestions
    /\ body.hasAnswers

\* ---------------------------------------------------------------- storage
\* users.password: what bcrypt.hash returned for a password, or a text stored
\* as it was given
BcryptHash(password) == [hashed |-> TRUE, of |-> password]

Plain(password) == [hashed |-> FALSE, of |-> password]

\* bcrypt.compare(password, stored): false for a stored text that is no hash
BcryptCompare(password, stored) == stored.hashed /\ stored.of = password

GetUser(id) == {u \in users : u.id = id}

GetUserByUsername(username) == {u \in users : u.username = username}

InsertUserOk(username, email) ==
    \A u \in users : u.username # username /\ u.email # email

\* rows of a WHERE user_id = ? query without ORDER BY come in any order
Orders(rows) ==
    LET n == Len(rows)
        perms == {p \in [1..n -> 1..n] : \A i, j \in 1..n : p[i] = p[j] => i = j}
    IN  {[i \in 1..n |-> rows[p[i]]] : p \in perms}

SkillRowsOf(userId) == SelectSeq(domainSkillLevels, LAMBDA r : r.userId = userId)

GetUserSkillLevels(userId) == Orders(SkillRowsOf(userId))

\* ------------------------------------------------------------ the inputs
Opts4 == <<"A", "B", "C", "D">>

QuizOf(n) == [i \in 1..n |-> [question |-> i, options |-> Opts4, correctAnswer |-> i % 4]]

\* the first k answers right, the others wrong or left unanswered (-1)
AnswersOf(q, k) ==
    [i \in 1..Len(q) |->
        IF i <= k THEN q[i].correctAnswer
        ELSE IF i % 2 = 0 THEN -1 ELSE (q[i].correctAnswer + 1) % 4]

\* questionsArray: req.body.questions is an array (hasQuestions: it is there
\* and truthy)
Body(u, d, hq, q, ha, a) ==
    [userId |-> u, domain |-> d, hasQuestions |-> hq, questions |-> q,
     questionsArray |-> TRUE, hasAnswers |-> ha, answers |-> a]

\* questions: "abc", a truthy value without forEach
NotAnArray(body) == [body EXCEPT !.questions = <<>>, !.questionsArray = FALSE]

\* bodies with a missing field, one whose answers are shorter than its
\* questions and one whose questions are no array
OtherBodies ==
    {Body("", "Web Development", TRUE, QuizOf(5), TRUE, AnswersOf(QuizOf(5), 5)),
     Body(KnownUser, "", TRUE, QuizOf(5), TRUE, AnswersOf(QuizOf(5), 5)),
     Body(KnownUser, "Web Development", FALSE, <<>>, TRUE, AnswersOf(QuizOf(5), 5)),
     Body(KnownUser, "Web Development", TRUE, QuizOf(5), FALSE, <<>>),
     Body(KnownUser, "Web Development", TRUE, QuizOf(5), TRUE, SubSeq(AnswersOf(QuizOf(5), 5), 1, 3)),
     NotAnArray(Body(KnownUser, "Web Development", TRUE, <<>>, TRUE, AnswersOf(QuizOf(5), 5)))}

\* scoring: one user and domain, quizzes of 0, 5 and 10 questions, every number
\* of right answers
ScoreLens == {0, 5, 10}

ScoreBodies ==
    UNION {{Body(KnownUser, "Web Development", TRUE, QuizOf(n), TRUE, AnswersOf(QuizOf(n), k)) :
                k \in 0..n} : n \in ScoreLens}
    \cup OtherBodies

\* history: both users and domains, a 5-question quiz answered to each level
HistoryCounts == {1, 2, 4}

HistoryBodies ==
    {Body(KnownUser, d, TRUE, QuizOf(5), TRUE, AnswersOf(QuizOf(5), k)) :
        d \in Domains, k \in HistoryCounts}
    \cup {Body(DemoUser, "Web Development", TRUE, QuizOf(5), TRUE, AnswersOf(QuizOf(5), 2))}

\* concurrent submissions: one user, retakes in one domain at each level and a
\* quiz in another domain
ConcBodies ==
    {Body(KnownUser, "Web Development", TRUE, QuizOf(5), TRUE, AnswersOf(QuizOf(5), k)) :
        k \in HistoryCounts}
    \cup {Body(KnownUser, "Data Science", TRUE, QuizOf(5), TRUE, AnswersOf(QuizOf(5), 4))}

\* ------------------------------------------------------- request slots
NoBody == Body("", "", FALSE, <<>>, FALSE, <<>>)

SubmitIdle ==
    [pc |-> "idle", body |-> NoBody, user |-> "", status |-> 0, score |-> 0,
     totalQuestions |-> 0, percentage |-> NaN, skillLevel |-> "", attemptId |-> 0,
     results |-> <<>>]

NoResp == [route |-> "", status |-> 0]

\* ------------------------------------------ POST /api/quiz/submit, by step
SubmitDone(s, status) ==
    submitReq' = [submitReq EXCEPT ![s].pc = "done", ![s].status = status]

\* the request arrives: validation, then storage.getUser(userId)
SubmitBegin(s, body, dbOk) ==
    /\ submitReq[s].pc \in {"idle", "done"}
    /\ Len(quizAttempts) < MaxAttempts
    /\ Cardinality(users) <= MaxAttempts
    /\ LET r == [SubmitIdle EXCEPT !.body = body] IN
       IF ~SubmitValid(body)
       THEN submitReq' = [submitReq EXCEPT ![s] = [r EXCEPT !.pc = "done", !.status = 400]]
       ELSE IF ~dbOk
       THEN submitReq' = [submitReq EXCEPT ![s] = [r EXCEPT !.pc = "done", !.status = 500]]
       ELSE IF GetUser(body.userId) # {}
       THEN submitReq' = [submitReq EXCEPT ![s] = [r EXCEPT !.pc = "saveAttempt", !.user = body.userId]]
       ELSE submitReq' = [submitReq EXCEPT ![s] = [r EXCEPT !.pc = "createUser"]]
    /\ UNCHANGED <<signupReq, users, domainSkillLevels, quizAttempts, clock, resp, chatVars>>

\* storage.createUser({username: `demo-user-${Date.now()}`, ...})
SubmitCreateUser(s, dbOk) ==
    /\ submitReq[s].pc = "createUser"
    /\ LET username == [base |-> "demo-user-", ts |-> clock]
           email == [base |-> "demo-user-@example.com", ts |-> clock]
           id == Uuids[Cardinality(users)]
       IN  IF dbOk /\ InsertUserOk(username, email)
           THEN /\ users' = users \cup {[id |-> id, username |-> username, email |-> email,
                                         password |-> Plain("demo")]}
                /\ submitReq' = [submitReq EXCEPT ![s].pc = "saveAttempt", ![s].user = id]
           ELSE /\ SubmitDone(s, 500)
                /\ UNCHANGED users
    /\ clock' = IF dbOk THEN clock + 1 ELSE clock
    /\ UNCHANGED <<signupReq, domainSkillLevels, quizAttempts, resp, chatVars>>

\* score, percentage and level, then storage.saveQuizAttempt(...);
\* questions.forEach is a TypeError when questions is no array
SubmitSaveAttempt(s, dbOk) ==
    /\ submitReq[s].pc = "saveAttempt"
    /\ LET r == submitReq[s]
           questions == r.body.questions
           answers == r.body.answers
           score == Score(questions, answers)
           totalQuestions == Len(questions)
           percentage == Percentage(score, totalQuestions)
           skillLevel == SkillLevelOf(percentage)
           id == Len(quizAttempts) + 1
       IN  IF dbOk /\ r.body.questionsArray
           THEN /\ quizAttempts' = Append(quizAttempts,
                      [id |-> id, userId |-> r.user, domain |-> r.body.domain,
                       questions |-> questions, answers |-> answers, score |-> score,
                       totalQuestions |-> totalQuestions,
                       skillLevelDetermined |-> skillLevel, completedAt |-> clock])
                /\ submitReq' = [submitReq EXCEPT ![s] =
                      [r EXCEPT !.pc = "setSkill", !.score = score,
                                !.totalQuestions = totalQuestions,
                                !.percentage = percentage, !.skillLevel = skillLevel,
                                !.attemptId = id]]
           ELSE /\ SubmitDone(s, 500)
                /\ UNCHANGED quizAttempts
    /\ clock' = IF dbOk /\ submitReq[s].body.questionsArray THEN clock + 1 ELSE clock
    /\ UNCHANGED <<signupReq, users, domainSkillLevels, resp, chatVars>>

\* one row per (user, domain), overwritten by the next submission
SetDomainSkillLevelUpsert(userId, domain, skillLevel) ==
    IF \E i \in 1..Len(domainSkillLevels) :
          domainSkillLevels[i].userId = userId /\ domainSkillLevels[i].domain = domain
    THEN [i \in 1..Len(domainSkillLevels) |->
             IF domainSkillLevels[i].userId = userId /\ domainSkillLevels[i].domain = domain
             THEN [domainSkillLevels[i] EXCEPT !.skillLevel = skillLevel,
                                               !.determinedAt = clock]
             ELSE domainSkillLevels[i]]
    ELSE Append(domainSkillLevels,
                [id |-> Len(domainSkillLevels) + 1, userId |-> userId, domain |-> domain,
                 skillLevel |-> skillLevel, determinedAt |-> clock])

\* db.insert(domainSkillLevels).values({ userId, domain, skillLevel })
SetDomainSkillLevel(userId, domain, skillLevel) ==
    Append(domainSkillLevels,
           [id |-> Len(domainSkillLevels) + 1, userId |-> userId, domain |-> domain,
            skillLevel |-> skillLevel, determinedAt |-> clock])

\* storage.setDomainSkillLevel(user.id, domain, skillLevel), then the response
SubmitSetSkill(s, dbOk) ==
    /\ submitReq[s].pc = "setSkill"
    /\ LET r == submitReq[s] IN
       IF dbOk
       THEN /\ domainSkillLevels' = SetDomainSkillLevel(r.user, r.body.domain, r.skillLevel)
            /\ submitReq' = [submitReq EXCEPT ![s] =
                  [r EXCEPT !.pc = "done", !.status = 200,
                            !.results = DetailedResults(r.body.questions, r.body.answers)]]
       ELSE /\ SubmitDone(s, 500)
            /\ UNCHANGED domainSkillLevels
    /\ clock' = IF dbOk THEN clock + 1 ELSE clock
    /\ UNCHANGED <<signupReq, users, quizAttempts, resp, chatVars>>

\* the steps of the invocations in slots, which run concurrently
QuizSubmitOn(slots, bodies, dbOks) ==
    /\ resp = NoResp
    /\ UNCHANGED page
    /\ \E s \in slots, dbOk \in dbOks :
        \/ \E body \in bodies : SubmitBegin(s, body, dbOk)
        \/ SubmitCreateUser(s, dbOk)
        \/ SubmitSaveAttempt(s, dbOk)
        \/ SubmitSetSkill(s, dbOk)

\* one request after the other
QuizSubmit(bodies, dbOks) == QuizSubmitOn({1}, bodies, dbOks)

\* ---------------------------------------------- GET /api/user/:userId/skills
\* skills.reduce((acc, skill) => { acc[skill.domain] = skill.skillLevel; ... }, {})
RECURSIVE SkillMapLoop(_, _, _)
SkillMapLoop(skills, i, acc) ==
    IF i > Len(skills) THEN acc
    ELSE SkillMapLoop(skills, i + 1,
            [d \in DOMAIN acc \cup {skills[i].domain} |->
                IF d = skills[i].domain THEN skills[i].skillLevel ELSE acc[d]])

SkillMap(skills) == SkillMapLoop(skills, 1, [d \in {} |-> ""])

GetSkillsOn(userId) ==
    \E skills \in GetUserSkillLevels(userId) :
       resp' = [route |-> "skills", status |-> 200, userId |-> userId,
                body |-> SkillMap(skills)]

\* ------------------------------------------------- the generative service
\* What openai.chat.completions.create() can do: reject (network error, HTTP
\* error, the 15 s timeout), or resolve with a list of choices whose first
\* message carries a content that is null or a text.
Completion(rejects, nChoices, contentNull, content) ==
    [rejects |-> rejects, nChoices |-> nChoices, contentNull |-> contentNull,
     content |-> content]

Rejected == Completion(TRUE, 0, TRUE, "")
NoChoices == Completion(FALSE, 0, TRUE, "")
NullContent == Completion(FALSE, 1, TRUE, "")
Text(content) == Completion(FALSE, 1, FALSE, content)

\* a generated course list: a platform root and a specific course page
GeneratedCourses(domain, skillLevel) ==
    <<[id |-> <<"gen-1">>, title |-> <<domain, " Basics">>, provider |-> "Coursera",
       url |-> "https://www.coursera.org", domain |-> domain, skillLevel |-> skillLevel,
       price |-> 0, rating |-> 45, duration |-> "4 weeks",
       description |-> <<"Basics of ", domain>>, isFree |-> TRUE],
      [id |-> <<"gen-2">>, title |-> <<domain, " in Practice">>, provider |-> "Coursera",
       url |-> "https://www.coursera.org/learn/some-course", domain |-> domain,
       skillLevel |-> skillLevel, price |-> 0, rating |-> 47, duration |-> "6 weeks",
       description |-> <<"Projects in ", domain>>, isFree |-> TRUE]>>

\* JSON.parse on the texts the service is made to return here; list is the
\* value of the field the route reads (courses, questions)
Json(throws, isNull, hasList, isArray, list) ==
    [throws |-> throws, isNull |-> isNull, hasList |-> hasList, isArray |-> isArray,
     list |-> list]

\* the object {} as an element of the list: every field read from it is undefined
EmptyObject == [question |-> <<>>, options |-> <<>>, correctAnswer |-> Undefined]

JsonParse(text, generated) ==
    CASE text = "{}" -> Json(FALSE, FALSE, FALSE, FALSE, <<>>)
      [] text = "null" -> Json(FALSE, TRUE, FALSE, FALSE, <<>>)
      [] text = "{\"list\":\"none\"}" -> Json(FALSE, FALSE, TRUE, FALSE, <<>>)
      [] text = "{\"list\":[]}" -> Json(FALSE, FALSE, TRUE, TRUE, <<>>)
      [] text = "{\"list\":[...]}" -> Json(FALSE, FALSE, TRUE, TRUE, generated)
      [] text = "{\"list\":[{}]}" -> Json(FALSE, FALSE, TRUE, TRUE, <<EmptyObject>>)
      [] OTHER -> Json(TRUE, FALSE, FALSE, FALSE, <<>>)

CourseCompletions ==
    {Rejected, NoChoices, NullContent, Text(""), Text("Sorry, I cannot help"),
     Text("null"), Text("{}"), Text("{\"list\":[]}"), Text("{\"list\":[...]}")}

\* completion.choices[0].message.content: a TypeError when there is no choice
ContentThrows(completion) == completion.rejects \/ completion.nChoices = 0

\* content || "{}"
ContentOr(completion, default) ==
    IF completion.contentNull \/ completion.content = "" THEN default
    ELSE completion.content

\* const data = JSON.parse(content || "{}"); data.courses || []
CoursesData(completion, generated) == JsonParse(ContentOr(completion, "{}"), generated)

CoursesThrows(completion, generated) ==
    \/ ContentThrows(completion)
    \/ CoursesData(completion, generated).throws
    \/ CoursesData(completion, generated).isNull

CoursesOrEmpty(completion, generated) ==
    IF CoursesData(completion, generated).hasList
    THEN CoursesData(completion, generated).list ELSE <<>>

\* -------------------- GET /api/courses/recommendations/:userId/:domain?
\* prices in cents, ratings in tenths
FallbackCourses(targetDomain, skillLevel) ==
    <<[id |-> <<targetDomain, "-free-1">>, title |-> <<"Introduction to ", targetDomain>>,
       provider |-> "freeCodeCamp", url |-> "https://www.freecodecamp.org",
       domain |-> targetDomain, skillLevel |-> skillLevel, price |-> 0, rating |-> 48,
       duration |-> "Self-paced",
       description |-> <<"Learn the fundamentals of ", targetDomain, " with hands-on projects">>,
       isFree |-> TRUE],
      [id |-> <<targetDomain, "-free-2">>, title |-> <<targetDomain, " Crash Course">>,
       provider |-> "YouTube", url |-> "https://www.youtube.com",
       domain |-> targetDomain, skillLevel |-> skillLevel, price |-> 0, rating |-> 47,
       duration |-> "3-5 hours",
       description |-> <<"Quick introduction to ", targetDomain, " concepts">>,
       isFree |-> TRUE],
      [id |-> <<targetDomain, "-free-3">>, title |-> <<"Complete ", targetDomain, " Guide">>,
       provider |-> "Coursera", url |-> "https://www.coursera.org",
       domain |-> targetDomain, skillLevel |-> skillLevel, price |-> 0, rating |-> 46,
       duration |-> "4 weeks",
       description |-> <<"Comprehensive ", skillLevel, " level ", targetDomain, " course">>,
       isFree |-> TRUE],
      [id |-> <<targetDomain, "-paid-1">>, title |-> <<"Advanced ", targetDomain, " Masterclass">>,
       provider |-> "Udemy", url |-> "https://www.udemy.com",
       domain |-> targetDomain, skillLevel |-> skillLevel, price |-> 4999, rating |-> 49,
       duration |-> "20 hours",
       description |-> <<"Deep dive into ", targetDomain, " with real-world projects">>,
       isFree |-> FALSE]>>

\* the default taken from the enrollment default domain
TargetDomainGeneral(domain, skillLevels) ==
    IF domain # "" THEN domain
    ELSE IF Len(skillLevels) > 0 THEN skillLevels[1].domain
    ELSE "General"

\* domain || (skillLevels.length > 0 ? skillLevels[0].domain : 'Web Development')
TargetDomain(domain, skillLevels) ==
    IF domain # "" THEN domain
    ELSE IF Len(skillLevels) > 0 THEN skillLevels[1].domain
    ELSE "Web Development"

\* skillLevels.find(s => s.domain === targetDomain)?.skillLevel || 'Beginner'
FindSkillLevel(skillLevels, targetDomain) ==
    LET hits == SelectSeq(skillLevels, LAMBDA r : r.domain = targetDomain)
    IN  IF Len(hits) > 0 THEN hits[1].skillLevel ELSE "Beginner"

GetRecommendationsOn(userId, domain, completion, dbOk) ==
    IF ~dbOk
    THEN resp' = [route |-> "recommendations", status |-> 500]
    ELSE \E skillLevels \in GetUserSkillLevels(userId) :
         LET targetDomain == TargetDomain(domain, skillLevels)
             skillLevel == FindSkillLevel(skillLevels, targetDomain)
             generated == GeneratedCourses(targetDomain, skillLevel)
         IN  resp' = [route |-> "recommendations", status |-> 200,
                      userId |-> userId, domain |-> domain,
                      prompt |-> [domain |-> targetDomain, skillLevel |-> skillLevel],
                      completion |-> completion,
                      courses |-> IF CoursesThrows(completion, generated)
                                  THEN FallbackCourses(targetDomain, skillLevel)
                                  ELSE CoursesOrEmpty(completion, generated)]

\* ------------------------------------------- POST /api/courses/recommend
RecommendBodies == [domain : {"", "Web Development"}, skillLevel : {"", "Beginner", "Advanced"}]

PostRecommendOn(body, completion) ==
    LET generated == GeneratedCourses(body.domain, body.skillLevel)
        r == [route |-> "recommend", body |-> body, completion |-> completion]
    IN  IF body.domain = "" \/ body.skillLevel = ""
        THEN resp' = r @@ [status |-> 400, courses |-> <<>>]
        ELSE IF CoursesThrows(completion, generated)
        THEN resp' = r @@ [status |-> 500, courses |-> <<>>]
        ELSE resp' = r @@ [status |-> 200, courses |-> CoursesOrEmpty(completion, generated)]

\* ------------------------------------------------ POST /api/quiz/generate
Q(question, options, correctAnswer) ==
    [question |-> question, options |-> options, correctAnswer |-> correctAnswer]

\* questionBanks[0] and questionBanks[1] of getFallbackQuiz(domain)
QuestionBank0(domain) ==
    <<Q(<<"What is the primary purpose of ", domain, "?">>,
        <<"To build software applications", "To manage data and information",
          "To solve specific technical problems", "All of the above">>, 3),
      Q(<<"Which skill is most important for ", domain, "?">>,
        <<"Problem-solving abilities", "Communication skills", "Technical knowledge",
          "All are equally important">>, 3),
      Q(<<domain, " is best described as:">>,
        <<"A theoretical field", "A practical discipline",
          "Both theoretical and practical", "Neither theoretical nor practical">>, 2),
      Q(<<"What is a common tool used in ", domain, "?">>,
        <<"Specialized software", "Programming languages", "Development frameworks",
          "Varies by specific application">>, 3),
      Q(<<"How would you rate the learning curve for ", domain, "?">>,
        <<"Very easy", "Moderate", "Challenging but manageable", "Very difficult">>, 2)>>

QuestionBank1(domain) ==
    <<Q(<<"Which approach is most effective for learning ", domain, "?">>,
        <<"Reading documentation only", "Hands-on practice and projects",
          "Watching video tutorials", "Attending workshops">>, 1),
      Q(<<"What role does ", domain, " play in modern technology?">>,
        <<"It's becoming obsolete", "It's essential and growing",
          "It's only for specialists", "It's mainly theoretical">>, 1),
      Q(<<"How often should you practice ", domain, " skills?">>,
        <<"Once a month", "Once a week", "Daily or several times per week",
          "Only when working on projects">>, 2),
      Q(<<"What's the best way to stay current in ", domain, "?">>,
        <<"Follow industry blogs and forums", "Take regular courses",
          "Work on real projects", "All of the above">>, 3),
      Q(<<domain, " expertise requires:">>,
        <<"Natural talent only", "Consistent practice and learning",
          "Expensive equipment", "A computer science degree">>, 1)>>

AllQuestions(domain) == QuestionBank0(domain) \o QuestionBank1(domain)

\* shuffled.slice(0, 5)
FallbackSize == 5

\* [...allQuestions].sort(() => Math.random() - 0.5).slice(0, 5): the sort
\* leaves some permutation of the pool, of which the first five are kept
FallbackPicks ==
    {p \in [1..FallbackSize -> 1..10] : \A i, j \in 1..FallbackSize : p[i] = p[j] => i = j}

\* the picks taken from the first bank only
GetFallbackQuizFirstBank(domain, pick) ==
    [domain |-> domain,
     questions |-> [i \in 1..FallbackSize |-> QuestionBank0(domain)[((pick[i] - 1) % 5) + 1]]]

GetFallbackQuiz(domain, pick) ==
    [domain |-> domain,
     questions |-> [i \in 1..FallbackSize |-> AllQuestions(domain)[pick[i]]]]

\* what the service is made to return for a quiz
GeneratedQuestions(domain) ==
    <<Q(<<"What does HTML stand for in ", domain, "?">>,
        <<"HyperText Markup Language", "High Transfer Markup Language",
          "Hyperlink Text Mode Language", "None of these">>, 0),
      Q(<<"Which of these is a version control system?">>,
        <<"Git", "Gulp", "Grunt", "Gatsby">>, 0)>>

QuizCompletions ==
    {Rejected, NoChoices, NullContent, Text(""), Text("Sorry, I cannot help"),
     Text("null"), Text("{}"), Text("{\"list\":\"none\"}"), Text("{\"list\":[]}"),
     Text("{\"list\":[...]}"), Text("{\"list\":[{}]}")}

\* req.body.domains: missing, not an array, or an array
GenerateBodies ==
    {[hasDomains |-> FALSE, isArray |-> FALSE, domains |-> <<>>],
     [hasDomains |-> TRUE, isArray |-> FALSE, domains |-> <<>>],
     [hasDomains |-> TRUE, isArray |-> TRUE, domains |-> <<>>],
     [hasDomains |-> TRUE, isArray |-> TRUE, domains |-> <<"Data Science", "Web Development">>]}

\* !domains || !Array.isArray(domains) || domains.length === 0
GenerateValid(body) == body.hasDomains /\ body.isArray /\ Len(body.domains) > 0

QuizData(completion, domain) ==
    JsonParse(ContentOr(completion, "{}"), GeneratedQuestions(domain))

\* what lands in the catch (aiError) block
QuizThrows(completion, domain) ==
    \/ ContentThrows(completion)
    \/ QuizData(completion, domain).throws
    \/ QuizData(completion, domain).isNull

\* the length test left out
QuizStructureInvalidNoLength(quizData) == ~quizData.hasList \/ ~quizData.isArray

\* !quizData.questions || !Array.isArray(quizData.questions) || quizData.questions.length === 0
QuizStructureInvalid(quizData) ==
    ~quizData.hasList \/ ~quizData.isArray \/ Len(quizData.list) = 0

GenerateQuizOn(body, completion) ==
    LET r == [route |-> "generate", body |-> body, completion |-> completion] IN
    IF ~GenerateValid(body)
    THEN resp' = r @@ [status |-> 400, domain |-> "", questions |-> <<>>]
    ELSE LET domain == body.domains[1] IN
         IF QuizThrows(completion, domain) \/ QuizStructureInvalid(QuizData(completion, domain))
         THEN \E pick \in FallbackPicks :
                 resp' = r @@ [status |-> 200] @@ GetFallbackQuiz(domain, pick)
         ELSE resp' = r @@ [status |-> 200, domain |-> domain,
                            questions |-> QuizData(completion, domain).list]

GenerateQuiz ==
    /\ resp = NoResp
    /\ \E body \in GenerateBodies, completion \in QuizCompletions :
          GenerateQuizOn(body, completion)
    /\ UNCHANGED <<signupReq, page, users, domainSkillLevels, quizAttempts, clock, submitReq, chatVars>>

\* the client takes the response of a one-step route off the wire
ReceiveResponse ==
    /\ resp # NoResp
    /\ resp' = NoResp
    /\ UNCHANGED <<signupReq, page, users, domainSkillLevels, quizAttempts, clock, submitReq, chatVars>>

UserIds == {KnownUser, DemoUser, Uuids[1]}

GetSkills ==
    /\ resp = NoResp
    /\ \E userId \in UserIds : GetSkillsOn(userId)
    /\ UNCHANGED <<signupReq, page, users, domainSkillLevels, quizAttempts, clock, submitReq, chatVars>>

GetRecommendations ==
    /\ resp = NoResp
    /\ \E userId \in UserIds, domain \in Domains \cup {""},
          completion \in CourseCompletions, dbOk \in BOOLEAN :
          GetRecommendationsOn(userId, domain, completion, dbOk)
    /\ UNCHANGED <<signupReq, page, users, domainSkillLevels, quizAttempts, clock, submitReq, chatVars>>

PostRecommend ==
    /\ resp = NoResp
    /\ \E body \in RecommendBodies, completion \in CourseCompletions :
          PostRecommendOn(body, completion)
    /\ UNCHANGED <<signupReq, page, users, domainSkillLevels, quizAttempts, clock, submitReq, chatVars>>

\* ------------------------------------------------------------------ text
\* A text is a sequence of pieces. What the user types is kept character by
\* character; a literal of the source is one piece; a template literal is the
\* sequence of its literal parts and interpolated values.
UpperCase == <<"A", "B", "C", "D", "E", "F", "G", "H", "I", "J", "K", "L", "M", "N", "O", "P", "Q", "R", "S", "T", "U", "V", "W", "X", "Y", "Z">>

LowerCase == <<"a", "b", "c", "d", "e", "f", "g", "h", "i", "j", "k", "l", "m", "n", "o", "p", "q", "r", "s", "t", "u", "v", "w", "x", "y", "z">>

LowerChar(c) ==
    IF \E i \in 1..26 : UpperCase[i] = c
    THEN LowerCase[CHOOSE i \in 1..26 : UpperCase[i] = c]
    ELSE c

\* String.prototype.toLowerCase
ToLowerCase(text) == [i \in 1..Len(text) |-> LowerChar(text[i])]

\* String.prototype.includes
Includes(text, word) ==
    \E i \in 0..(Len(text) - Len(word)) : SubSeq(text, i + 1, i + Len(word)) = word

\* String.prototype.trim
RECURSIVE TrimStart(_)
TrimStart(text) ==
    IF text # <<>> /\ Head(text) = " " THEN TrimStart(Tail(text)) ELSE text

RECURSIVE TrimEnd(_)
TrimEnd(text) ==
    IF text # <<>> /\ text[Len(text)] = " "
    THEN TrimEnd(SubSeq(text, 1, Len(text) - 1)) ELSE text

Trim(text) == TrimEnd(TrimStart(text))

\* Array.prototype.join
RECURSIVE Join(_, _)
Join(items, sep) ==
    IF Len(items) = 0 THEN <<>>
    ELSE IF Len(items) = 1 THEN <<items[1]>>
    ELSE <<items[1], sep>> \o Join(Tail(items), sep)

\* `${n}` for the small counts that occur
NumStr(n) == <<"0", "1", "2", "3", "4", "5", "6", "7", "8", "9">>[n + 1]

\* text || fallback
TextOr(text, fallback) == IF text = <<>> THEN fallback ELSE text

KwMotivat == <<"m", "o", "t", "i", "v", "a", "t">>
KwStuck == <<"s", "t", "u", "c", "k">>
KwDifficult == <<"d", "i", "f", "f", "i", "c", "u", "l", "t">>
KwNext == <<"n", "e", "x", "t">>
KwWhatShould == <<"w", "h", "a", "t", " ", "s", "h", "o", "u", "l", "d">>
KwRecommend == <<"r", "e", "c", "o", "m", "m", "e", "n", "d">>
KwQuiz == <<"q", "u", "i", "z">>
KwAssess == <<"a", "s", "s", "e", "s", "s">>
KwTest == <<"t", "e", "s", "t">>
KwSchedule == <<"s", "c", "h", "e", "d", "u", "l", "e">>
KwPlan == <<"p", "l", "a", "n">>
KwTime == <<"t", "i", "m", "e">>

\* ------------------------------------------------------- chat storage
GetUserCourses(userId) == SelectSeq(enrolledCourses, LAMBDA c : c.userId = userId)

GetUserQuizAttempts(userId) == SelectSeq(quizAttempts, LAMBDA a : a.userId = userId)

\* user_id references users.id
ForeignKeyOk(userId) == \E u \in users : u.id = userId

\* ------------------------------------------------------- POST /api/chat
\* the user context the handler derives from the store
CompletedCourses(courses) == SelectSeq(courses, LAMBDA c : c.completed)

InProgressCourses(courses) == SelectSeq(courses, LAMBDA c : ~c.completed /\ c.progress > 0)

AssessedDomains(skills) == [i \in 1..Len(skills) |-> skills[i].domain]

UnevaluatedDomains(skills, courses) ==
    LET inProgress == InProgressCourses(courses)
        ds == [i \in 1..Len(inProgress) |-> inProgress[i].domain]
    IN  SelectSeq(ds, LAMBDA d : d # "" /\ \A i \in 1..Len(skills) : skills[i].domain # d)

RECURSIVE SkillPieces(_)
SkillPieces(skills) ==
    IF Len(skills) = 0 THEN <<>>
    ELSE <<skills[1].domain, " (", skills[1].skillLevel, ")">>
         \o (IF Len(skills) > 1 THEN <<", ">> ELSE <<>>) \o SkillPieces(Tail(skills))

\* allQuizHistory.slice(0, 5).length
RecentQuizCount(attempts) == IF Len(attempts) > 5 THEN 5 ELSE Len(attempts)

SystemPrompt(skills, courses, attempts) ==
    <<"You are an AI learning mentor helping a student on SkillPath, an AI-powered learning platform.",
      "STUDENT PROFILE: - Skills assessed: ">>
    \o TextOr(SkillPieces(skills), <<"None yet">>)
    \o <<" - Total courses enrolled: ", NumStr(Len(courses)),
         " - Completed courses: ", NumStr(Len(CompletedCourses(courses))),
         " - In-progress courses: ", NumStr(Len(InProgressCourses(courses))),
         " - Recent quiz attempts: ", NumStr(RecentQuizCount(attempts)),
         " - Domains without assessment: ">>
    \o TextOr(Join(UnevaluatedDomains(skills, courses), ", "), <<"None">>)
    \o <<"PLATFORM FEATURES & NAVIGATION: ... YOUR ROLE: ... HOW THE PLATFORM WORKS: ...",
         "Keep responses clear and readable (2-3 short paragraphs). Focus on next actionable steps.">>

\* [system, ...(conversationHistory || []), user]
ChatMessagesFor(systemPrompt, conversationHistory, message) ==
    <<[role |-> "system", content |-> systemPrompt]>>
    \o conversationHistory
    \o <<[role |-> "user", content |-> message]>>

ReplyEncourage ==
    <<"Learning can be challenging, but you're making great progress! Remember that every expert was once a beginner. Take it one step at a time, celebrate small wins, and don't be afraid to ask for help. You've got this!">>

ReplyPractice ==
    <<"Based on your current skill levels, I'd recommend focusing on building practical projects. Hands-on experience is one of the best ways to solidify your knowledge. Check out the Courses page for resources tailored to your level!">>

ReplyFirstAssessment ==
    <<"Taking your first skills assessment is a great way to start! It'll help us understand your current level and recommend the perfect courses for you. Visit the Assessments page to get started!">>

ReplySchedule ==
    <<"Creating a consistent learning schedule is key to success! Try dedicating specific time blocks each day, even if it's just 30 minutes. Use the Schedule feature to plan your learning milestones and track your progress.">>

ReplyDefault ==
    <<"I'm here to support your learning journey! I can help you with study strategies, course recommendations, staying motivated, or planning your learning schedule. What would you like to focus on today?">>

\* the catch (aiError) block
FallbackReply(message, skills, courses) ==
    LET lowerMessage == ToLowerCase(message)
        completed == CompletedCourses(courses)
        unevaluated == UnevaluatedDomains(skills, courses)
    IN  IF Includes(lowerMessage, KwMotivat) \/ Includes(lowerMessage, KwStuck)
           \/ Includes(lowerMessage, KwDifficult)
        THEN ReplyEncourage
        ELSE IF Includes(lowerMessage, KwNext) \/ Includes(lowerMessage, KwWhatShould)
                \/ Includes(lowerMessage, KwRecommend)
        THEN IF Len(unevaluated) > 0
             THEN <<"Great question! I notice you're making progress in ">>
                  \o Join(unevaluated, ", ")
                  \o <<". Once you feel comfortable with the material, I'd recommend taking a skill assessment quiz to measure your progress and get personalized course recommendations. Head to the Assessments page when you're ready!">>
             ELSE IF Len(completed) > 0 /\ Len(skills) = 0
             THEN <<"You've completed ", NumStr(Len(completed)), " course",
                    IF Len(completed) > 1 THEN "s" ELSE "",
                    " - that's awesome! Now would be a great time to take a skills assessment to see how much you've learned and get recommendations for your next steps. Check out the Assessments page!">>
             ELSE ReplyPractice
        ELSE IF Includes(lowerMessage, KwQuiz) \/ Includes(lowerMessage, KwAssess)
                \/ Includes(lowerMessage, KwTest)
        THEN IF Len(skills) = 0
             THEN ReplyFirstAssessment
             ELSE <<"You've already assessed your skills in ">>
                  \o Join(AssessedDomains(skills), ", ") \o <<". ">>
                  \o (IF Len(unevaluated) > 0
                      THEN <<"Consider taking quizzes in ">> \o Join(unevaluated, ", ")
                           \o <<" to track your progress in those areas!">>
                      ELSE <<"Keep learning and reassess periodically to track your improvement!">>)
        ELSE IF Includes(lowerMessage, KwSchedule) \/ Includes(lowerMessage, KwPlan)
                \/ Includes(lowerMessage, KwTime)
        THEN ReplySchedule
        ELSE ReplyDefault

\* completion.choices[0].message.content || ""
ContentText(completion) ==
    IF ContentOr(completion, "") = "" THEN <<>> ELSE <<completion.content>>

ChatReply(completion, message, skills, courses) ==
    IF ContentThrows(completion) THEN FallbackReply(message, skills, courses)
    ELSE ContentText(completion)

ChatSlots == {1, 2}

\* the slot the mentor page talks through; the other one is a direct caller
PageSlot == 1

ChatBody(userId, message, conversationHistory) ==
    [userId |-> userId, message |-> message, conversationHistory |-> conversationHistory]

ChatIdle ==
    [pc |-> "idle", body |-> ChatBody("", <<>>, <<>>), aiMessages |-> <<>>,
     response |-> <<>>, status |-> 0, saved |-> <<>>]

ChatCompletions ==
    {Rejected, NoChoices, NullContent, Text(""),
     Text("Start with a small project and build on it.")}

\* the request is on its way to the server
ChatSend(s, body) ==
    chatReq' = [chatReq EXCEPT ![s] = [ChatIdle EXCEPT !.pc = "sent", !.body = body]]

\* validation, the user context, the generative call and the reply
ChatBegin(s, completion, dbOk) ==
    /\ chatReq[s].pc = "sent"
    /\ LET r == chatReq[s]
           userId == r.body.userId
           message == r.body.message
       IN  IF userId = "" \/ message = <<>>
           THEN chatReq' = [chatReq EXCEPT ![s].pc = "done", ![s].status = 400]
           ELSE IF ~dbOk
           THEN chatReq' = [chatReq EXCEPT ![s].pc = "done", ![s].status = 500]
           ELSE \E skills \in GetUserSkillLevels(userId) :
                LET courses == GetUserCourses(userId)
                    attempts == GetUserQuizAttempts(userId)
                IN  chatReq' = [chatReq EXCEPT
                       ![s].pc = "saveUser",
                       ![s].aiMessages =
                           ChatMessagesFor(SystemPrompt(skills, courses, attempts),
                                           r.body.conversationHistory, message),
                       ![s].response = ChatReply(completion, message, skills, courses)]
    /\ UNCHANGED <<signupReq, page, users, domainSkillLevels, quizAttempts, enrolledCourses, chatMessages,
                   clock, submitReq, resp, messages, isPending>>

\* every row stored as an assistant row
ChatRowAssistant(userId, role, content) ==
    [id |-> Len(chatMessages) + 1, userId |-> userId, role |-> "assistant",
     content |-> content, timestamp |-> clock]

\* storage.saveChatMessage row
ChatRow(userId, role, content) ==
    [id |-> Len(chatMessages) + 1, userId |-> userId, role |-> role,
     content |-> content, timestamp |-> clock]

\* await storage.saveChatMessage({ userId, role: "user", content: message })
ChatSaveUser(s, dbOk) ==
    /\ chatReq[s].pc = "saveUser"
    /\ LET r == chatReq[s] IN
       IF dbOk /\ ForeignKeyOk(r.body.userId)
       THEN /\ chatMessages' = Append(chatMessages, ChatRow(r.body.userId, "user", r.body.message))
            /\ chatReq' = [chatReq EXCEPT ![s].pc = "saveAssistant",
                                          ![s].saved = Append(r.saved, Len(chatMessages) + 1)]
            /\ clock' = clock + 1
       ELSE /\ chatReq' = [chatReq EXCEPT ![s].pc = "done", ![s].status = 500]
            /\ UNCHANGED <<chatMessages, clock>>
    /\ UNCHANGED <<signupReq, page, users, domainSkillLevels, quizAttempts, enrolledCourses,
                   submitReq, resp, messages, isPending>>

\* await storage.saveChatMessage({ userId, role: "assistant", content: response })
\* and res.json({ response })
ChatSaveAssistant(s, dbOk) ==
    /\ chatReq[s].pc = "saveAssistant"
    /\ LET r == chatReq[s] IN
       IF dbOk /\ ForeignKeyOk(r.body.userId)
       THEN /\ chatMessages' = Append(chatMessages, ChatRow(r.body.userId, "assistant", r.response))
            /\ chatReq' = [chatReq EXCEPT ![s].pc = "done", ![s].status = 200,
                                          ![s].saved = Append(r.saved, Len(chatMessages) + 1)]
            /\ clock' = clock + 1
       ELSE /\ chatReq' = [chatReq EXCEPT ![s].pc = "done", ![s].status = 500]
            /\ UNCHANGED <<chatMessages, clock>>
    /\ UNCHANGED <<signupReq, page, users, domainSkillLevels, quizAttempts, enrolledCourses,
                   submitReq, resp, messages, isPending>>

Chat ==
    \E s \in ChatSlots, dbOk \in BOOLEAN :
        \/ \E completion \in ChatCompletions : ChatBegin(s, completion, dbOk)
        \/ ChatSaveUser(s, dbOk)
        \/ ChatSaveAssistant(s, dbOk)

\* ----------------------------------------------------------- MentorPage
WelcomeText ==
    <<"Hi! I'm your AI learning mentor. I'm here to help you achieve your learning goals. How can I assist you today?">>

\* useState<Message[]>([...])
InitialMessages == <<[role |-> "assistant", content |-> WelcomeText]>>

\* localStorage.getItem('userId'), here of a signed-up user
PageUserId == KnownUser

\* what the user types
InputTexts ==
    {<<" ", " ">>,
     <<" ", "I", " ", "a", "m", " ", "S", "t", "u", "c", "k", " ">>,
     <<"h", "e", "l", "l", "o">>}

\* handleSubmit: the user message joins the list and chatMutation.mutate sends
\* the messages of the current render as conversationHistory
HandleSubmit(input) ==
    /\ Trim(input) # <<>>
    /\ ~isPending
    /\ Len(SelectSeq(messages, LAMBDA m : m.role = "user")) < MaxTurns
    /\ messages' = Append(messages, [role |-> "user", content |-> Trim(input)])
    /\ isPending' = TRUE
    /\ ChatSend(PageSlot, ChatBody(PageUserId, Trim(input), messages))
    /\ UNCHANGED <<signupReq, page, users, domainSkillLevels, quizAttempts, enrolledCourses, chatMessages,
                   clock, submitReq, resp>>

\* chatMutation settles: onSuccess appends data.response, an error appends nothing
MutationSettled ==
    /\ isPending
    /\ chatReq[PageSlot].pc = "done"
    /\ messages' = IF chatReq[PageSlot].status = 200
                   THEN Append(messages, [role |-> "assistant",
                                          content |-> chatReq[PageSlot].response])
                   ELSE messages
    /\ isPending' = FALSE
    /\ chatReq' = [chatReq EXCEPT ![PageSlot] = ChatIdle]
    /\ UNCHANGED <<signupReq, page, users, domainSkillLevels, quizAttempts, enrolledCourses, chatMessages,
                   clock, submitReq, resp>>

\* a caller of the route other than the page
ApiBodies ==
    {ChatBody(u, m, <<>>) : u \in {"", KnownUser, DemoUser},
                            m \in {<<>>, <<"m", "y", " ", "p", "l", "a", "n">>}}

ApiChat(body) ==
    /\ chatReq[2].pc \in {"idle", "done"}
    /\ Len(chatMessages) < 2 * MaxTurns
    /\ ChatSend(2, body)
    /\ UNCHANGED <<signupReq, page, users, domainSkillLevels, quizAttempts, enrolledCourses, chatMessages,
                   clock, submitReq, resp, messages, isPending>>

\* ------------------------------------------- POST /api/courses/enroll
\* req.body: userId, courseId (the id of the recommended course), title, domain
EnrollBodies ==
    [userId : {"", KnownUser, DemoUser}, courseId : {"", "gen-2"},
     title : {"", "Web Development in Practice"}, domain : {"", "Web Development"}]

\* !userId || !courseId
EnrollValid(body) == body.userId # "" /\ body.courseId # ""

\* text || fallback on a plain string
StrOr(text, fallback) == IF text = "" THEN fallback ELSE text

\* storage.enrollCourse row: progress 0, completed false
EnrollmentRow(body) ==
    [id |-> Len(enrolledCourses) + 1, userId |-> body.userId,
     courseTitle |-> IF body.title = "" THEN <<"Course ", body.courseId>> ELSE <<body.title>>,
     domain |-> StrOr(body.domain, "General"), progress |-> 0, completed |-> FALSE,
     enrolledAt |-> clock]

EnrollOn(body, dbOk) ==
    LET r == [route |-> "enroll", body |-> body] IN
    IF ~EnrollValid(body)
    THEN /\ resp' = r @@ [status |-> 400]
         /\ UNCHANGED <<enrolledCourses, clock>>
    ELSE IF ~dbOk \/ ~ForeignKeyOk(body.userId)
    THEN /\ resp' = r @@ [status |-> 500]
         /\ UNCHANGED <<enrolledCourses, clock>>
    ELSE /\ enrolledCourses' = Append(enrolledCourses, EnrollmentRow(body))
         /\ clock' = clock + 1
         /\ resp' = r @@ [status |-> 200, enrollment |-> EnrollmentRow(body)]

Enroll ==
    /\ resp = NoResp
    /\ Len(enrolledCourses) < MaxCourses
    /\ \E body \in EnrollBodies, dbOk \in BOOLEAN : EnrollOn(body, dbOk)
    /\ UNCHANGED <<signupReq, page, users, domainSkillLevels, quizAttempts, chatMessages, submitReq,
                   chatReq, messages, isPending>>

\* ---------------------------------- PATCH /api/courses/:courseId/progress
\* req.body.progress: a JSON number, an integer or an integer and a half, or
\* something that is not a number
Num(value) == [isNumber |-> TRUE, value |-> value, half |-> FALSE]

Half(value) == [isNumber |-> TRUE, value |-> value, half |-> TRUE]

NotANumber == [isNumber |-> FALSE, value |-> 0, half |-> FALSE]

ProgressValues ==
    {Num(-1), Num(0), Num(55), Num(100), Num(101), Half(55), Half(100), NotANumber}

\* ids of enrollment rows, and one that no row has
CourseIds == {1, 2, 9}

\* typeof progress !== 'number' || progress < 0 || progress > 100
\* the upper limit left out
ProgressValidNoUpper(progress) == progress.isNumber /\ progress.value >= 0

ProgressValid(progress) ==
    /\ progress.isNumber
    /\ progress.value >= 0
    /\ IF progress.half THEN progress.value < 100 ELSE progress.value <= 100

\* update ... set progress = ? where id = ?
UpdateCourseProgress(courseId, progress) ==
    [i \in 1..Len(enrolledCourses) |->
        IF enrolledCourses[i].id = courseId
        THEN [enrolledCourses[i] EXCEPT !.progress = progress]
        ELSE enrolledCourses[i]]

\* the completed flag left out of the update
CompleteCourseProgressOnly(courseId) == UpdateCourseProgress(courseId, 100)

\* update ... set completed = true, progress = 100 where id = ?
CompleteCourse(courseId) ==
    [i \in 1..Len(enrolledCourses) |->
        IF enrolledCourses[i].id = courseId
        THEN [enrolledCourses[i] EXCEPT !.completed = TRUE, !.progress = 100]
        ELSE enrolledCourses[i]]

\* the integer column progress takes no value with a fraction: the UPDATE fails
PatchProgressOn(courseId, progress, dbOk) ==
    LET r == [route |-> "progress", courseId |-> courseId, progress |-> progress] IN
    IF ~ProgressValid(progress)
    THEN /\ resp' = r @@ [status |-> 400]
         /\ UNCHANGED enrolledCourses
    ELSE IF ~dbOk \/ progress.half
    THEN /\ resp' = r @@ [status |-> 500]
         /\ UNCHANGED enrolledCourses
    ELSE /\ enrolledCourses' = IF progress.value = 100
                               THEN CompleteCourse(courseId)
                               ELSE UpdateCourseProgress(courseId, progress.value)
         /\ resp' = r @@ [status |-> 200]

PatchProgress ==
    /\ resp = NoResp
    /\ \E courseId \in CourseIds, progress \in ProgressValues, dbOk \in BOOLEAN :
          PatchProgressOn(courseId, progress, dbOk)
    /\ UNCHANGED <<signupReq, page, users, domainSkillLevels, quizAttempts, chatMessages, clock, submitReq,
                   chatReq, messages, isPending>>

\* -------------------------------------------------- POST /api/auth/login
\* a username as typed, and the names `demo-user-${Date.now()}` of the users
\* that quiz submit creates
Name(base) == [base |-> base, ts |-> 0]

LoginNames == {Name(""), Name("alice"), Name("bob")} \cup {[base |-> "demo-user-", ts |-> 1]}

LoginBodies == [username : LoginNames, password : {"", "secret1", "demo", "letmein"}]

\* !username || !password
LoginValid(body) == body.username # Name("") /\ body.password # ""

\* res.status(401).json({ error: "Invalid credentials" }) of the !user branch
\* and of the !isValidPassword branch
InvalidCredentials == [status |-> 401, json |-> [error |-> "Invalid credentials"]]

\* the !user branch answering that the user does not exist
UserNotFound == [status |-> 404, json |-> [error |-> "User not found"]]

NoSuchUserAnswer == InvalidCredentials

WrongPasswordAnswer == InvalidCredentials

LoginOn(body, dbOk) ==
    LET r == [route |-> "login", body |-> body] IN
    IF ~LoginValid(body)
    THEN resp' = r @@ [status |-> 400,
                       json |-> [error |-> "Username and password are required"]]
    ELSE IF ~dbOk
    THEN resp' = r @@ [status |-> 500, json |-> [error |-> "Failed to login"]]
    ELSE IF GetUserByUsername(body.username) = {}
    THEN resp' = r @@ NoSuchUserAnswer
    ELSE LET user == CHOOSE u \in users : u.username = body.username IN
         IF ~BcryptCompare(body.password, user.password)
         THEN resp' = r @@ WrongPasswordAnswer
         ELSE resp' = r @@ [status |-> 200,
                            json |-> [userId |-> user.id, username |-> user.username,
                                      email |-> user.email]]

Login ==
    /\ resp = NoResp
    /\ \E body \in LoginBodies, dbOk \in BOOLEAN : LoginOn(body, dbOk)
    /\ UNCHANGED <<signupReq, page, users, domainSkillLevels, quizAttempts, clock, submitReq, chatVars>>

\* chat requests of a user who takes quizzes
MentorBodies ==
    {Body(KnownUser, "Web Development", TRUE, QuizOf(5), TRUE, AnswersOf(QuizOf(5), 4))}

MentorApiBodies ==
    {ChatBody(KnownUser, m, <<>>) :
        m \in {<<"q", "u", "i", "z">>, <<"m", "y", " ", "p", "l", "a", "n">>,
               <<"I", " ", "a", "m", " ", "S", "t", "u", "c", "k">>,
               <<"h", "e", "l", "l", "o">>}}

\* ------------------------------------------------- POST /api/auth/signup
\* request slots of the route (one handler invocation each)
SignupSlots == {1, 2}

\* req.body: username, email and password, each possibly missing
SignupBodies ==
    [username : {Name(""), Name("alice"), Name("bob")},
     email : {Name(""), Name("alice@example.com"), Name("bob@example.com")},
     password : {"", "short", "secret1"}]

SignupIdle ==
    [pc |-> "idle", body |-> [username |-> Name(""), email |-> Name(""), password |-> ""],
     status |-> 0, error |-> "", userId |-> ""]

GetUserByEmail(email) == {u \in users : u.email = email}

SignupAnswer(s, status, error) ==
    signupReq' = [signupReq EXCEPT ![s].pc = "done", ![s].status = status,
                                   ![s].error = error]

\* the request arrives: the two validations, then storage.getUserByUsername
SignupBegin(s, body, dbOk) ==
    /\ signupReq[s].pc \in {"idle", "done"}
    /\ Cardinality(users) < MaxUsers
    /\ LET r == [SignupIdle EXCEPT !.body = body, !.pc = "done"] IN
       IF body.username = Name("") \/ body.email = Name("") \/ body.password = ""
       THEN signupReq' = [signupReq EXCEPT ![s] =
               [r EXCEPT !.status = 400,
                         !.error = "Username, email, and password are required"]]
       ELSE IF Len(body.password) < 6
       THEN signupReq' = [signupReq EXCEPT ![s] =
               [r EXCEPT !.status = 400,
                         !.error = "Password must be at least 6 characters"]]
       ELSE IF ~dbOk
       THEN signupReq' = [signupReq EXCEPT ![s] =
               [r EXCEPT !.status = 500, !.error = "Failed to create account"]]
       ELSE IF GetUserByUsername(body.username) # {}
       THEN signupReq' = [signupReq EXCEPT ![s] =
               [r EXCEPT !.status = 400, !.error = "Username already exists"]]
       ELSE signupReq' = [signupReq EXCEPT ![s] = [r EXCEPT !.pc = "checkEmail"]]
    /\ UNCHANGED <<page, users, domainSkillLevels, quizAttempts, clock, submitReq, resp,
                   chatVars>>

\* await storage.getUserByEmail(email)
SignupCheckEmail(s, dbOk) ==
    /\ signupReq[s].pc = "checkEmail"
    /\ IF ~dbOk
       THEN SignupAnswer(s, 500, "Failed to create account")
       ELSE IF GetUserByEmail(signupReq[s].body.email) # {}
       THEN SignupAnswer(s, 400, "Email already exists")
       ELSE signupReq' = [signupReq EXCEPT ![s].pc = "createUser"]
    /\ UNCHANGED <<page, users, domainSkillLevels, quizAttempts, clock, submitReq, resp,
                   chatVars>>

\* bcrypt.hash(password, 10), storage.createUser({...}) and the response; the
\* insert is rejected when a row has the username or the email (unique columns)
SignupCreateUser(s, dbOk) ==
    /\ signupReq[s].pc = "createUser"
    /\ LET body == signupReq[s].body
           id == Uuids[Cardinality(users)]
       IN  IF dbOk /\ InsertUserOk(body.username, body.email)
           THEN /\ users' = users \cup {[id |-> id, username |-> body.username,
                                         email |-> body.email,
                                         password |-> BcryptHash(body.password)]}
                /\ signupReq' = [signupReq EXCEPT ![s].pc = "done", ![s].status = 200,
                                                  ![s].userId = id]
           ELSE /\ SignupAnswer(s, 500, "Failed to create account")
                /\ UNCHANGED users
    /\ UNCHANGED <<page, domainSkillLevels, quizAttempts, clock, submitReq, resp, chatVars>>

\* the steps of the invocations in the slots, which run concurrently
Signup(dbOks) ==
    \E s \in SignupSlots, dbOk \in dbOks :
        \/ \E body \in SignupBodies : SignupBegin(s, body, dbOk)
        \/ SignupCheckEmail(s, dbOk)
        \/ SignupCreateUser(s, dbOk)

\* ------------------------------------------------------- AssessmentPage
\* JSON.parse(localStorage.getItem('selectedDomains') || '["Web Development"]')
SelectedDomains == <<"Web Development">>

\* the body of the page's POST /api/quiz/generate
PageGenerateBody == [hasDomains |-> TRUE, isArray |-> TRUE, domains |-> SelectedDomains]

\* the response of POST /api/quiz/generate for one outcome of the service and
\* of the shuffle
GenerateResponse(body, completion, pick) ==
    IF ~GenerateValid(body)
    THEN [status |-> 400, domain |-> "", questions |-> <<>>]
    ELSE LET domain == body.domains[1] IN
         IF QuizThrows(completion, domain) \/ QuizStructureInvalid(QuizData(completion, domain))
         THEN [status |-> 200] @@ GetFallbackQuiz(domain, pick)
         ELSE [status |-> 200, domain |-> domain,
               questions |-> QuizData(completion, domain).list]

\* outcomes of the service and of the shuffle while the page is used
PageCompletions == {Rejected, Text("{\"list\":[...]}")}

PagePicks == {[i \in 1..FallbackSize |-> i + k] : k \in {0, 5}}

\* the option the user clicks
AnswerChoices == {0}

\* useState(null) of quizData and of quizResults
NoQuiz == [isNull |-> TRUE, domain |-> "", questions |-> <<>>]

NoResults == [isNull |-> TRUE, score |-> 0, totalQuestions |-> 0, skillLevel |-> ""]

\* the page before its mount effect: the five states, the status and the data
\* of generateQuizMutation, the submit requests under way to the server, and
\* the numbers of requests of either mutation
PageInit ==
    [currentQuestion |-> 0, userAnswers |-> <<>>, quizData |-> NoQuiz,
     showResults |-> FALSE, quizResults |-> NoResults,
     generateStatus |-> "idle", generateData |-> NoQuiz,
     sending |-> <<>>, generated |-> 0, submitted |-> 0]

\* generateQuizMutation.mutate()
GenerateMutate(p) ==
    [p EXCEPT !.generateStatus = "pending", !.generateData = NoQuiz,
              !.generated = @ + 1]

\* what is rendered: the results, or the current question
ResultsShown ==
    /\ page.generateStatus \notin {"pending", "error"}
    /\ page.showResults /\ ~page.quizResults.isNull

QuestionShown ==
    /\ page.generateStatus \notin {"pending", "error"}
    /\ ~ResultsShown
    /\ ~page.quizData.isNull /\ Len(page.quizData.questions) # 0

PageUnchanged ==
    UNCHANGED <<signupReq, users, domainSkillLevels, quizAttempts, clock, submitReq, resp,
                chatVars>>

\* useEffect(() => { if (!quizData) generateQuizMutation.mutate() }, [])
MountAssessment ==
    /\ page.generated = 0
    /\ page.quizData.isNull
    /\ page' = GenerateMutate(page)
    /\ PageUnchanged

\* the Retry button of the error screen
RetryGenerate ==
    /\ page.generateStatus = "error"
    /\ page.generated < MaxQuizzes
    /\ page' = GenerateMutate(page)
    /\ PageUnchanged

\* the five resets of handleRetakeQuiz, with the current question left as it is
RetakeResetKeepsQuestion(p) ==
    [p EXCEPT !.quizData = NoQuiz, !.showResults = FALSE, !.quizResults = NoResults,
              !.userAnswers = <<>>]

\* the five resets of handleRetakeQuiz
RetakeReset(p) ==
    [p EXCEPT !.quizData = NoQuiz, !.showResults = FALSE, !.quizResults = NoResults,
              !.currentQuestion = 0, !.userAnswers = <<>>]

HandleRetakeQuiz ==
    /\ ResultsShown
    /\ page.generated < MaxQuizzes
    /\ page' = GenerateMutate(RetakeReset(page))
    /\ PageUnchanged

\* the generate request is answered: onSuccess sets quizData and the answers
\* new Array(data.questions.length).fill(-1); a failed request sets isError
GenerateQuizSettled ==
    /\ page.generateStatus = "pending"
    /\ \/ page' = [page EXCEPT !.generateStatus = "error"]
       \/ \E completion \in PageCompletions, pick \in PagePicks :
             LET data == GenerateResponse(PageGenerateBody, completion, pick)
                 quiz == [isNull |-> FALSE, domain |-> data.domain,
                          questions |-> data.questions]
             IN  page' = [page EXCEPT !.generateStatus = "success",
                                      !.generateData = quiz,
                                      !.quizData = quiz,
                                      !.userAnswers = [i \in 1..Len(data.questions) |-> -1]]
    /\ PageUnchanged

\* newAnswers[currentQuestion] = answerIndex
HandleAnswer ==
    /\ QuestionShown
    /\ \E answerIndex \in AnswerChoices :
          page' = [page EXCEPT !.userAnswers =
                      [i \in 1..Len(page.userAnswers) |->
                          IF i = page.currentQuestion + 1 THEN answerIndex
                          ELSE page.userAnswers[i]]]
    /\ PageUnchanged

\* userAnswers[currentQuestion] !== -1, handed to QuizQuestion with onNext
CanProceed == page.userAnswers[page.currentQuestion + 1] # -1

\* handleNext, once the current question has an answer: the next question,
\* or submitQuizMutation.mutate(userAnswers) with userId, quizData.domain
\* and quizData.questions; it can be clicked again while a submission is
\* pending
HandleNext ==
    /\ QuestionShown
    /\ CanProceed
    /\ IF page.currentQuestion < Len(page.quizData.questions) - 1
       THEN page' = [page EXCEPT !.currentQuestion = @ + 1]
       ELSE /\ page.submitted < MaxAttempts
            /\ page' = [page EXCEPT
                  !.sending = Append(@, Body(PageUserId, page.quizData.domain, TRUE,
                                             page.quizData.questions, TRUE,
                                             page.userAnswers)),
                  !.submitted = @ + 1]
    /\ PageUnchanged

\* handlePrevious, offered when currentQuestion > 0
HandlePrevious ==
    /\ QuestionShown
    /\ page.currentQuestion > 0
    /\ page' = [page EXCEPT !.currentQuestion = @ - 1]
    /\ PageUnchanged

\* the server takes up the page's oldest submit request and works on it; the
\* page's user has a User row, so that no user is created
AssessmentSubmit ==
    \E dbOk \in BOOLEAN :
        \/ /\ page.sending # <<>>
           /\ submitReq[1].pc = "idle"
           /\ SubmitBegin(1, Head(page.sending), dbOk)
           /\ page' = [page EXCEPT !.sending = Tail(@)]
        \/ SubmitSaveAttempt(1, dbOk) /\ UNCHANGED page
        \/ SubmitSetSkill(1, dbOk) /\ UNCHANGED page

\* the submit request is answered: onSuccess sets quizResults and showResults
SubmitQuizSettled ==
    /\ submitReq[1].pc = "done"
    /\ LET r == submitReq[1] IN
       page' = IF r.status = 200
               THEN [page EXCEPT !.showResults = TRUE,
                                 !.quizResults = [isNull |-> FALSE, score |-> r.score,
                                                  totalQuestions |-> r.totalQuestions,
                                                  skillLevel |-> r.skillLevel]]
               ELSE page
    /\ submitReq' = [submitReq EXCEPT ![1] = SubmitIdle]
    /\ UNCHANGED <<signupReq, users, domainSkillLevels, quizAttempts, clock, resp, chatVars>>

\* ------------------------------------------------------------------- Init
\* one signed-up user, empty tables, the mentor page freshly mounted
Init ==
    /\ users = {[id |-> KnownUser, username |-> [base |-> "alice", ts |-> 0],
                 email |-> [base |-> "alice@example.com", ts |-> 0],
                 password |-> BcryptHash("secret1")]}
    /\ domainSkillLevels = <<>>
    /\ quizAttempts = <<>>
    /\ clock = 1
    /\ enrolledCourses = <<>>
    /\ chatMessages = <<>>
    /\ submitReq = [s \in SubmitSlots |-> SubmitIdle]
    /\ resp = NoResp
    /\ chatReq = [s \in ChatSlots |-> ChatIdle]
    /\ messages = InitialMessages
    /\ isPending = FALSE
    /\ signupReq = [s \in SignupSlots |-> SignupIdle]
    /\ page = PageInit

\* quiz history: submissions on a datastore that does not fail, skills and
\* recommendations
Next ==
    \/ QuizSubmit(HistoryBodies, {TRUE})
    \/ GetSkills
    \/ GetRecommendations
    \/ PostRecommend
    \/ ReceiveResponse

Spec == Init /\ [][Next]_vars

\* scoring of one submission after another, each datastore call may fail
NextScore == QuizSubmit(ScoreBodies, BOOLEAN)

SpecScore == Init /\ [][NextScore]_vars

\* quiz generation
NextGen ==
    \/ GenerateQuiz
    \/ ReceiveResponse

SpecGen == Init /\ [][NextGen]_vars

\* the mentor page and the chat route
NextChat ==
    \/ \E input \in InputTexts : HandleSubmit(input)
    \/ MutationSettled
    \/ \E body \in ApiBodies : ApiChat(body)
    \/ Chat

SpecChat == Init /\ [][NextChat]_vars

\* enrollments and their progress
NextCourse ==
    \/ Enroll
    \/ PatchProgress
    \/ ReceiveResponse

SpecCourse == Init /\ [][NextCourse]_vars

\* logins, while quiz submissions create users
NextAuth ==
    \/ Login
    \/ QuizSubmit(HistoryBodies, {TRUE})
    \/ ReceiveResponse

SpecAuth == Init /\ [][NextAuth]_vars

\* two quiz submissions at a time, each datastore call may fail
NextConc == QuizSubmitOn(SubmitSlots, ConcBodies, BOOLEAN)

SpecConc == Init /\ [][NextConc]_vars

\* the chat route for a user whose skill rows come and go with quiz submissions
NextMentor ==
    \/ QuizSubmit(MentorBodies, {TRUE})
    \/ \E body \in MentorApiBodies : ApiChat(body)
    \/ Chat

SpecMentor == Init /\ [][NextMentor]_vars

\* concurrent signups on a datastore that does not fail
NextSignup == Signup({TRUE})

SpecSignup == Init /\ [][NextSignup]_vars

\* the assessment page, the quiz routes behind it and its user
NextAssessment ==
    \/ MountAssessment
    \/ RetryGenerate
    \/ HandleRetakeQuiz
    \/ GenerateQuizSettled
    \/ HandleAnswer
    \/ HandleNext
    \/ HandlePrevious
    \/ AssessmentSubmit
    \/ SubmitQuizSettled

SpecAssessment == Init /\ [][NextAssessment]_vars

\* ================================================================ claims
DoneOk(r) == r.pc = "done" /\ r.status = 200

\* the level that the thresholds 70 and 40 give to score out of total, total > 0
LevelByThreshold(score, total) ==
    IF 100 * score >= 70 * total THEN "Advanced"
    ELSE IF 100 * score >= 40 * total THEN "Intermediate"
    ELSE "Beginner"

\* C1: the level of a submission is decided by its own percentage p alone:
\* Advanced iff p >= 70, Intermediate iff 40 <= p < 70, Beginner iff p < 40,
\* in the response and in every stored attempt, whatever was stored before.
C1_LevelByOwnPercentage ==
    /\ \A s \in SubmitSlots :
          LET r == submitReq[s] p == r.percentage IN
          (DoneOk(r) /\ ~p.nan) =>
             /\ r.skillLevel = "Advanced" <=> p.num >= 70 * p.den
             /\ r.skillLevel = "Intermediate" <=> (p.num >= 40 * p.den /\ p.num < 70 * p.den)
             /\ r.skillLevel = "Beginner" <=> p.num < 40 * p.den
    /\ \A i \in 1..Len(quizAttempts) :
          LET a == quizAttempts[i] IN
          a.totalQuestions > 0 =>
             a.skillLevelDetermined = LevelByThreshold(a.score, a.totalQuestions)
    /\ \A i \in 1..Len(domainSkillLevels) :
          domainSkillLevels[i].skillLevel \in {"Beginner", "Intermediate", "Advanced"}

\* a submission at exactly 70 is answered Advanced after one at exactly 40 was
\* stored as Intermediate
C1_Witness ==
    /\ DoneOk(submitReq[1])
    /\ submitReq[1].percentage = Rat(70, 1)
    /\ submitReq[1].skillLevel = "Advanced"
    /\ Len(quizAttempts) = 2
    /\ quizAttempts[1].score = 2 /\ quizAttempts[1].totalQuestions = 5
    /\ quizAttempts[1].skillLevelDetermined = "Intermediate"

\* C2: for questions and answers of equal length n > 0 the response carries
\* score = the number of indices whose answer equals the correct answer,
\* totalQuestions = n and percentage = 100 * score / n.
C2_ScoreAndPercentage ==
    \A s \in SubmitSlots :
       LET r == submitReq[s]
           q == r.body.questions
           a == r.body.answers
           n == Len(q)
       IN  (DoneOk(r) /\ n > 0 /\ Len(a) = n) =>
              /\ r.score = Cardinality({i \in 1..n : q[i].correctAnswer = a[i]})
              /\ r.totalQuestions = n
              /\ ~r.percentage.nan
              /\ r.percentage.num * n = 100 * r.score * r.percentage.den

\* 4 of 5 right: score 4, totalQuestions 5, percentage 80, Advanced
C2_Witness ==
    /\ DoneOk(submitReq[1])
    /\ Len(submitReq[1].body.questions) = 5
    /\ submitReq[1].score = 4
    /\ submitReq[1].totalQuestions = 5
    /\ submitReq[1].percentage = Rat(80, 1)
    /\ submitReq[1].skillLevel = "Advanced"

\* C5: a submission whose questions array is empty is answered 400, no
\* percentage is computed from a division by zero and no row is written for it.
C5_EmptyQuizRejected ==
    /\ \A s \in SubmitSlots :
          LET r == submitReq[s] IN
          (r.pc = "done" /\ r.status # 500 /\ SubmitValid(r.body) /\ r.body.questions = <<>>)
             => (r.status = 400 /\ ~r.percentage.nan)
    /\ \A i \in 1..Len(quizAttempts) : quizAttempts[i].totalQuestions # 0

\* the level of the row with the greatest determinedAt for (userId, domain)
RowsFor(userId, domain) ==
    {i \in 1..Len(domainSkillLevels) :
        domainSkillLevels[i].userId = userId /\ domainSkillLevels[i].domain = domain}

LatestLevel(userId, domain) ==
    LET latest == CHOOSE i \in RowsFor(userId, domain) :
                     \A j \in RowsFor(userId, domain) :
                        domainSkillLevels[j].determinedAt <= domainSkillLevels[i].determinedAt
    IN  domainSkillLevels[latest].skillLevel

\* C3: GET /api/user/:userId/skills maps each domain to the level of the row
\* with the greatest determinedAt for that user and domain, in whatever order
\* the datastore returns the rows.
C3_SkillsAreLatest ==
    resp.route = "skills" =>
       \A d \in DOMAIN resp.body : resp.body[d] = LatestLevel(resp.userId, d)

\* C4: after a retake in domain d, the recommendations for d use the level of
\* the latest submission for d, in the generation request and in the fallback
\* courses.
C4_RecommendationsUseLatest ==
    (resp.route = "recommendations" /\ resp.status = 200
        /\ RowsFor(resp.userId, resp.prompt.domain) # {}) =>
       /\ resp.prompt.skillLevel = LatestLevel(resp.userId, resp.prompt.domain)
       /\ \A i \in 1..Len(resp.courses) :
             resp.courses[i].skillLevel = LatestLevel(resp.userId, resp.prompt.domain)

\* the completions here that carry a non-empty list
WellFormed == {Text("{\"list\":[...]}"), Text("{\"list\":[{}]}")}

BankQuestions == [domain \in Domains |-> {AllQuestions(domain)[i] : i \in 1..10}]

\* C6: quiz generation with a non-empty domains array answers 200 with a
\* non-empty questions array; unless the service returned JSON with a
\* non-empty questions array, the questions come from the fallback bank.
C6_GenerateNeverFails ==
    (resp.route = "generate" /\ GenerateValid(resp.body)) =>
       /\ resp.status = 200
       /\ Len(resp.questions) > 0
       /\ resp.completion \notin WellFormed =>
             \A i \in 1..Len(resp.questions) :
                resp.questions[i] \in BankQuestions[resp.body.domains[1]]

\* the service call was rejected and the answer is five bank questions
C6_Witness ==
    /\ resp.route = "generate"
    /\ resp.completion = Rejected
    /\ resp.status = 200
    /\ Len(resp.questions) = 5
    /\ resp.questions[1] = QuestionBank1("Data Science")[5]

\* a rejected call (error, timeout) or a text that is not JSON
ServiceFailed(completion) ==
    completion.rejects \/ completion = Text("Sorry, I cannot help")

\* C7: on both recommendation routes a failed generative call is answered 200
\* with the fallback course list.
C7_RecommendFailureAbsorbed ==
    /\ (resp.route = "recommend" /\ resp.status # 400 /\ ServiceFailed(resp.completion))
          => resp.status = 200
    /\ (resp.route = "recommendations" /\ resp.status = 200 /\ ServiceFailed(resp.completion))
          => resp.courses = FallbackCourses(resp.prompt.domain, resp.prompt.skillLevel)

\* C8: the reply of a chat request that has a userId and a message is never
\* empty, neither in the response nor in the stored assistant row.
C8_ReplyNeverEmpty ==
    /\ \A s \in ChatSlots :
          chatReq[s].pc \in {"saveUser", "saveAssistant"} \/ DoneOk(chatReq[s])
             => chatReq[s].response # <<>>
    /\ \A i \in 1..Len(chatMessages) :
          chatMessages[i].role = "assistant" => chatMessages[i].content # <<>>

\* the two rows of an answered chat request: the user's message, then the reply
ChatRowsInOrder(r) ==
    /\ Len(r.saved) = 2
    /\ r.saved[1] < r.saved[2]
    /\ r.saved[2] <= Len(chatMessages)
    /\ chatMessages[r.saved[1]].userId = r.body.userId
    /\ chatMessages[r.saved[1]].role = "user"
    /\ chatMessages[r.saved[1]].content = r.body.message
    /\ chatMessages[r.saved[2]].userId = r.body.userId
    /\ chatMessages[r.saved[2]].role = "assistant"
    /\ chatMessages[r.saved[2]].content = r.response

\* every step that adds to the chat history adds one row, for one request
OneRowPerSave ==
    chatMessages' # chatMessages =>
       /\ chatMessages' = Append(chatMessages, chatMessages'[Len(chatMessages')])
       /\ \E s \in ChatSlots :
             /\ chatReq'[s].saved = Append(chatReq[s].saved, Len(chatMessages'))
             /\ \A t \in ChatSlots \ {s} : chatReq'[t] = chatReq[t]

\* C9: an answered chat request has appended exactly two rows, the user's
\* message and then the returned reply, whether the reply was generated or
\* canned.
C9_TwoRowsInOrder ==
    /\ [](\A s \in ChatSlots : DoneOk(chatReq[s]) => ChatRowsInOrder(chatReq[s]))
    /\ [][OneRowPerSave]_vars

\* the page's request was answered with the canned encouragement while the
\* direct caller had stored its own message in between
C9_Witness ==
    /\ DoneOk(chatReq[PageSlot])
    /\ chatReq[PageSlot].response = ReplyEncourage
    /\ chatReq[PageSlot].saved = <<1, 3>>
    /\ Len(chatMessages) = 3

\* C10: no message sent to the generative service carries the welcome text of
\* the mentor page.
C10_NoWelcomeInContext ==
    \A s \in ChatSlots :
       \A i \in 1..Len(chatReq[s].aiMessages) :
          chatReq[s].aiMessages[i].content # WelcomeText

\* the home pages of the course platforms
PlatformRoots ==
    {"https://www.coursera.org", "https://www.freecodecamp.org", "https://www.youtube.com",
     "https://www.udemy.com"}

\* the answer of GET /api/courses/recommendations came from the generated list
FromGenerated ==
    /\ resp.route = "recommendations"
    /\ resp.status = 200
    /\ ~CoursesThrows(resp.completion,
                      GeneratedCourses(resp.prompt.domain, resp.prompt.skillLevel))

\* C11: a generated course is returned by GET /api/courses/recommendations only
\* if its URL names a specific resource: no returned generated course has a URL
\* that is exactly a platform root.
C11_NoPlatformRootUrl ==
    FromGenerated =>
       \A i \in 1..Len(resp.courses) : resp.courses[i].url \notin PlatformRoots

\* the generated courses whose URL names a specific resource
Surviving(completion, domain, skillLevel) ==
    IF CoursesThrows(completion, GeneratedCourses(domain, skillLevel)) THEN <<>>
    ELSE SelectSeq(CoursesOrEmpty(completion, GeneratedCourses(domain, skillLevel)),
                   LAMBDA c : c.url \notin PlatformRoots)

\* C12: when fewer than 6 generated courses survive the URL filter (none at
\* all and a missing courses field included) the answer is the full fallback
\* list, never a partial or empty generated list.
C12_FallbackBelowSix ==
    (resp.route = "recommendations" /\ resp.status = 200
        /\ Len(Surviving(resp.completion, resp.prompt.domain, resp.prompt.skillLevel))
              < 6) =>
       resp.courses = FallbackCourses(resp.prompt.domain, resp.prompt.skillLevel)

\* the request was answered from the catch (aiError) block
OnFallbackPath ==
    /\ resp.route = "recommendations"
    /\ resp.status = 200
    /\ CoursesThrows(resp.completion,
                     GeneratedCourses(resp.prompt.domain, resp.prompt.skillLevel))

\* C18: on the fallback path no title contradicts the level of the request: at
\* Beginner level no title starts with "Advanced ", at Advanced level no title
\* starts with "Introduction to ".
C18_TitlesFitLevel ==
    OnFallbackPath =>
       \A i \in 1..Len(resp.courses) :
          /\ resp.prompt.skillLevel = "Beginner" => resp.courses[i].title[1] # "Advanced "
          /\ resp.prompt.skillLevel = "Advanced" => resp.courses[i].title[1] # "Introduction to "

\* C20: without a domain parameter and without any skill row of the user, the
\* query is made for "Web Development" at Beginner level and every fallback
\* course carries that domain and level.
C20_DefaultDomainAndLevel ==
    (resp.route = "recommendations" /\ resp.status = 200 /\ resp.domain = ""
        /\ SkillRowsOf(resp.userId) = <<>>) =>
       /\ resp.prompt = [domain |-> "Web Development", skillLevel |-> "Beginner"]
       /\ OnFallbackPath =>
             /\ Len(resp.courses) = 4
             /\ \A i \in 1..Len(resp.courses) :
                   /\ resp.courses[i].domain = "Web Development"
                   /\ resp.courses[i].skillLevel = "Beginner"

\* the service timed out for a user without rows who named no domain, while
\* another user has rows in another domain
C20_Witness ==
    /\ OnFallbackPath
    /\ resp.completion = Rejected
    /\ resp.domain = ""
    /\ resp.userId = DemoUser
    /\ SkillRowsOf(DemoUser) = <<>>
    /\ \E i \in 1..Len(domainSkillLevels) : domainSkillLevels[i].domain = "Data Science"
    /\ resp.courses[1].title = <<"Introduction to ", "Web Development">>

\* the PATCH just answered 200 for row i, which was as enrollment created it
PatchedNew(i) ==
    /\ resp = NoResp
    /\ resp'.route = "progress"
    /\ resp'.status = 200
    /\ enrolledCourses[i].id = resp'.courseId
    /\ enrolledCourses[i].progress = 0
    /\ ~enrolledCourses[i].completed

\* C13: on a new enrollment (progress 0, not completed) a PATCH with progress
\* 100 sets progress 100 and completed in the same update, and one with a
\* smaller progress sets that progress and leaves completed false; no state has
\* a row with progress 100 that is not completed.
C13_CompletionIsAtomic ==
    /\ [](\A i \in 1..Len(enrolledCourses) :
             enrolledCourses[i].progress = 100 => enrolledCourses[i].completed)
    /\ [][\A i \in 1..Len(enrolledCourses) :
             PatchedNew(i) =>
                /\ enrolledCourses'[i].progress = resp'.progress.value
                /\ enrolledCourses'[i].completed = (resp'.progress.value = 100)
                /\ \A j \in 1..Len(enrolledCourses) :
                      enrolledCourses[j].id # resp'.courseId
                         => enrolledCourses'[j] = enrolledCourses[j]]_vars

\* one enrollment was taken to 55 and stays open, the other was just completed
C13_Witness ==
    /\ resp.route = "progress" /\ resp.status = 200 /\ resp.progress = Num(100)
    /\ Len(enrolledCourses) = 2
    /\ enrolledCourses[1].progress = 55 /\ ~enrolledCourses[1].completed
    /\ enrolledCourses[2].progress = 100 /\ enrolledCourses[2].completed
    /\ resp.courseId = 2

\* a login with username and password that the datastore served
LoginServed ==
    resp.route = "login" /\ LoginValid(resp.body) /\ resp.status # 500

\* the credentials of the login are those of a user row
GoodCredentials ==
    \E u \in users :
       u.username = resp.body.username /\ u.password = BcryptHash(resp.body.password)

\* C14: a login that fails, because no user has the username or because the
\* password is wrong, is answered 401 with one and the same body, so that the
\* response does not tell the two cases apart.
C14_LoginFailuresAlike ==
    (LoginServed /\ ~GoodCredentials) =>
       /\ resp.status = 401
       /\ resp.json = [error |-> "Invalid credentials"]

\* a wrong password for an existing user is answered as an unknown user is
C14_Witness ==
    /\ LoginServed
    /\ resp.body = [username |-> Name("alice"), password |-> "letmein"]
    /\ resp.status = 401
    /\ \E u \in users : u.username = [base |-> "demo-user-", ts |-> 1]

\* C15: an operation that names a user id or a course id that no row has is
\* answered 404 and changes nothing: quiz submit with an unknown userId goes
\* no further than the lookup and creates no user, and a progress update of an
\* unknown course id is answered 404.
C15_UnknownIdIs404 ==
    /\ \A s \in SubmitSlots :
          LET r == submitReq[s] IN
          (r.pc # "idle" /\ SubmitValid(r.body) /\ GetUser(r.body.userId) = {}
              /\ r.status # 500)
             => (r.pc = "done" /\ r.status = 404)
    /\ \A u \in users : u.username.base # "demo-user-"
    /\ (resp.route = "progress" /\ ProgressValid(resp.progress) /\ resp.status # 500
           /\ \A i \in 1..Len(enrolledCourses) : enrolledCourses[i].id # resp.courseId)
          => resp.status = 404

\* a required field of the quiz submission is missing or is not what it has to be
SubmitMalformed(body) == ~SubmitValid(body) \/ ~body.questionsArray

\* C16: a request with a missing or malformed required field is answered 400
\* before the handler reaches the datastore or the generative service: quiz
\* submit and chat answer it in their first step, quiz generate, enroll and
\* login answer 400.
C16_MalformedIs400 ==
    /\ \A s \in SubmitSlots :
          (submitReq[s].pc # "idle" /\ SubmitMalformed(submitReq[s].body))
             => (submitReq[s].pc = "done" /\ submitReq[s].status = 400)
    /\ \A s \in ChatSlots :
          (chatReq[s].pc \notin {"idle", "sent"}
              /\ (chatReq[s].body.userId = "" \/ chatReq[s].body.message = <<>>))
             => (chatReq[s].pc = "done" /\ chatReq[s].status = 400)
    /\ (resp.route = "generate" /\ ~GenerateValid(resp.body)) => resp.status = 400
    /\ (resp.route = "enroll" /\ ~EnrollValid(resp.body)) => resp.status = 400
    /\ (resp.route = "login" /\ ~LoginValid(resp.body)) => resp.status = 400

\* next is rows with at most one row added at the end
Extends(rows, next) ==
    /\ Len(next) \in {Len(rows), Len(rows) + 1}
    /\ SubSeq(next, 1, Len(rows)) = rows

\* the submission in slot s is answered 200 in this step
Answered(s) == DoneOk(submitReq'[s]) /\ submitReq[s].pc = "setSkill"

\* the rows of the two tables stay as they are, and the skill table grows by
\* the row of the submission that is answered in the step, and only then
AppendOnly ==
    /\ Extends(quizAttempts, quizAttempts')
    /\ Extends(domainSkillLevels, domainSkillLevels')
    /\ \A s \in SubmitSlots :
          Answered(s) =>
             /\ Len(domainSkillLevels') = Len(domainSkillLevels) + 1
             /\ LET row == domainSkillLevels'[Len(domainSkillLevels')] IN
                /\ row.userId = submitReq'[s].user
                /\ row.domain = submitReq'[s].body.domain
                /\ row.skillLevel = submitReq'[s].skillLevel
                /\ row.skillLevel =
                      LevelByThreshold(submitReq'[s].score, submitReq'[s].totalQuestions)
    /\ domainSkillLevels' # domainSkillLevels => \E s \in SubmitSlots : Answered(s)

\* C17: the skill history is append-only: each answered submission adds one
\* DomainSkillLevel row with the level it was given, no step changes or removes
\* a DomainSkillLevel or QuizAttempt row, and two concurrent submissions for one
\* user and domain both leave their row.
C17_HistoryAppendOnly == [][AppendOnly]_vars

\* two concurrent submissions of one user in one domain are both answered; the
\* one that stored its attempt first stored its level last
C17_Witness ==
    /\ DoneOk(submitReq[1]) /\ DoneOk(submitReq[2])
    /\ submitReq[1].body.domain = submitReq[2].body.domain
    /\ submitReq[1].user = submitReq[2].user
    /\ submitReq[1].attemptId = 1 /\ submitReq[2].attemptId = 2
    /\ Len(domainSkillLevels) = 2
    /\ domainSkillLevels[1].skillLevel = "Advanced"
    /\ domainSkillLevels[2].skillLevel = "Beginner"
    /\ quizAttempts[1].skillLevelDetermined = "Beginner"

\* the reply of the request comes from the catch block: it is neither empty
\* nor the text the service returns
Canned(r) ==
    /\ r.pc \in {"saveUser", "saveAssistant", "done"}
    /\ r.status \in {0, 200}
    /\ r.response # <<>>
    /\ r.response # <<"Start with a small project and build on it.">>

HasAny(message, words) ==
    \E i \in 1..Len(words) : Includes(ToLowerCase(message), words[i])

AllKeywords ==
    <<KwMotivat, KwStuck, KwDifficult, KwNext, KwWhatShould, KwRecommend, KwQuiz, KwAssess,
      KwTest, KwSchedule, KwPlan, KwTime>>

\* C19: a canned chat reply depends on the message text alone: "motivat" or
\* "stuck" gives the encouragement, "schedule" or "plan" the scheduling
\* template, a message without keyword the generic offer of help, and the reply
\* is the one a user with no skills and no courses gets for the same message.
C19_CannedReplyByTextAlone ==
    \A s \in ChatSlots :
       LET r == chatReq[s] message == r.body.message IN
       Canned(r) =>
          /\ HasAny(message, <<KwMotivat, KwStuck>>) => r.response = ReplyEncourage
          /\ (HasAny(message, <<KwSchedule, KwPlan>>) /\ ~HasAny(message, <<KwMotivat, KwStuck>>))
                => r.response = ReplySchedule
          /\ ~HasAny(message, AllKeywords) => r.response = ReplyDefault
          /\ r.response = FallbackReply(message, <<>>, <<>>)

\* progress is not a number of the range 0 to 100
OutOfRange(progress) ==
    \/ ~progress.isNumber
    \/ progress.value < 0
    \/ progress.value > 100
    \/ (progress.half /\ progress.value = 100)

\* C21: the stored progress of every enrollment is an integer from 0 to 100:
\* a PATCH with a value below 0, above 100 or not a number is answered 400,
\* and a PATCH answered 400 leaves every enrollment as it was.
C21_ProgressInRange ==
    /\ [](\A i \in 1..Len(enrolledCourses) : enrolledCourses[i].progress \in 0..100)
    /\ [][(resp = NoResp /\ resp'.route = "progress") =>
             /\ OutOfRange(resp'.progress) => resp'.status = 400
             /\ resp'.status = 400 => enrolledCourses' = enrolledCourses]_vars

\* a PATCH with 101 on an enrollment that stands at 55 was answered 400
C21_Witness ==
    /\ resp.route = "progress" /\ resp.status = 400 /\ resp.progress = Num(101)
    /\ resp.courseId = 1
    /\ Len(enrolledCourses) >= 1
    /\ enrolledCourses[1].progress = 55 /\ ~enrolledCourses[1].completed

\* C26: after any sequence of progress updates an enrollment is completed if
\* and only if its progress is 100.
C26_CompletedIffFull ==
    \A i \in 1..Len(enrolledCourses) :
       enrolledCourses[i].completed <=> enrolledCourses[i].progress = 100

\* C22: every question that POST /api/quiz/generate returns, generated or from
\* the fallback bank, has a question text, exactly four options and a
\* correctAnswer that is an index into them.
C22_QuestionsWellShaped ==
    (resp.route = "generate" /\ resp.status = 200) =>
       \A i \in 1..Len(resp.questions) :
          /\ resp.questions[i].question # <<>>
          /\ Len(resp.questions[i].options) = 4
          /\ resp.questions[i].correctAnswer \in 0..3

\* the answer of quiz generation came from getFallbackQuiz
FromFallbackQuiz ==
    /\ resp.route = "generate"
    /\ GenerateValid(resp.body)
    /\ resp.completion \notin WellFormed

\* C25: the fallback quiz is 5 pairwise distinct questions, each one as it
\* stands (text, options, correct index) in the 10-question union of the two
\* banks, whatever the shuffle does.
C25_FallbackFiveDistinct ==
    FromFallbackQuiz =>
       /\ Len(resp.questions) = 5
       /\ \A i, j \in 1..Len(resp.questions) :
             resp.questions[i] = resp.questions[j] => i = j
       /\ \A i \in 1..Len(resp.questions) :
             resp.questions[i] \in BankQuestions[resp.body.domains[1]]
       /\ Cardinality(BankQuestions[resp.body.domains[1]]) = 10

\* the service returned an empty list and the shuffle put questions of both
\* banks in front, the last of the second bank first
C25_Witness ==
    /\ FromFallbackQuiz
    /\ resp.completion = Text("{\"list\":[]}")
    /\ resp.questions[1] = QuestionBank1("Data Science")[5]
    /\ resp.questions[2] = QuestionBank0("Data Science")[1]
    /\ resp.questions[5] = QuestionBank1("Data Science")[1]

\* C23: every stored QuizAttempt has as many answers as questions, and each
\* answer is an option index of its question or -1 for a question left
\* unanswered.
C23_AnswersMatchQuestions ==
    \A i \in 1..Len(quizAttempts) :
       LET a == quizAttempts[i] IN
       /\ Len(a.answers) = Len(a.questions)
       /\ \A j \in 1..Len(a.answers) :
             j <= Len(a.questions) =>
                a.answers[j] \in {-1} \cup 0..(Len(a.questions[j].options) - 1)

\* C27: after a submission with userId u and domain d is answered 200, GET
\* /api/user/u/skills maps d to the level that the submission returned, also
\* for a u that had no User row.
C27_SkillsShowSubmittedLevel ==
    resp.route = "skills" =>
       \A s \in SubmitSlots :
          LET r == submitReq[s] IN
          (DoneOk(r) /\ r.body.userId = resp.userId) =>
             /\ r.body.domain \in DOMAIN resp.body
             /\ resp.body[r.body.domain] = r.skillLevel

\* the numbers of attempt rows and of skill rows of one user and domain
AttemptCount(userId, domain) ==
    Cardinality({i \in 1..Len(quizAttempts) :
                    quizAttempts[i].userId = userId /\ quizAttempts[i].domain = domain})

SkillCount(userId, domain) ==
    Cardinality({i \in 1..Len(domainSkillLevels) :
                    domainSkillLevels[i].userId = userId
                       /\ domainSkillLevels[i].domain = domain})

\* C28: once every submission is through, answered 200 or 500, each user and
\* domain has as many QuizAttempt rows as DomainSkillLevel rows: no submission
\* leaves one row without the other.
C28_NoPartialRecord ==
    (\A s \in SubmitSlots : submitReq[s].pc \in {"idle", "done"}) =>
       \A u \in users, d \in Domains : AttemptCount(u.id, d) = SkillCount(u.id, d)

\* the stored chat rows of one user, in insertion order
HistoryOf(userId) == SelectSeq(chatMessages, LAMBDA m : m.userId = userId)

\* the request that stored the row is about to store its reply
ReplyPending(row) ==
    \E s \in ChatSlots : chatReq[s].pc = "saveAssistant" /\ chatReq[s].saved = <<row.id>>

\* C29: in the stored chat history of a user every user row is followed at
\* once by an assistant row, the last row excepted while its request has yet
\* to store the reply; so under concurrent requests of one user and under a
\* failure between the two writes the history alternates.
C29_HistoryAlternates ==
    \A u \in {KnownUser, DemoUser} :
       LET h == HistoryOf(u) IN
       \A i \in 1..Len(h) :
          h[i].role = "user" =>
             \/ i < Len(h) /\ h[i + 1].role = "assistant"
             \/ i = Len(h) /\ ReplyPending(h[i])

\* another row has the username or the email of the signup in slot s
Taken(s) ==
    \E u \in users :
       /\ u.id # signupReq[s].userId
       /\ u.username = signupReq[s].body.username \/ u.email = signupReq[s].body.email

\* C30: under concurrent signups no two User rows share a username or an
\* email, and a signup with a password of 6 characters or more whose username
\* or email is taken is answered 400, not 500.
C30_SignupRace ==
    /\ \A u, v \in users : (u.username = v.username \/ u.email = v.email) => u = v
    /\ \A s \in SignupSlots :
          (signupReq[s].pc = "done" /\ Len(signupReq[s].body.password) >= 6 /\ Taken(s))
             => signupReq[s].status = 400

\* a step of handleNext that issues POST /api/quiz/submit
SubmitIssued == Len(page'.sending) > Len(page.sending)

\* a step of handleRetakeQuiz
RetakeStep == page.showResults /\ ~page'.showResults

\* C24: the assessment page issues POST /api/quiz/submit only when the latest
\* generate request has been answered, only from the last question, with the
\* questions of that answer and one answer entry per question; a retake sets
\* the current question to 0 and empties the answers as it asks for the new
\* quiz, and both stay so until the new quiz arrives.
C24_SubmitFollowsGenerate ==
    /\ [][/\ SubmitIssued =>
                LET body == page'.sending[Len(page'.sending)] IN
                /\ page.generateStatus = "success"
                /\ page.currentQuestion = Len(page.generateData.questions) - 1
                /\ body.questions = page.generateData.questions
                /\ Len(body.answers) = Len(body.questions)
            /\ RetakeStep =>
                /\ page'.generateStatus = "pending"
                /\ page'.currentQuestion = 0
                /\ page'.userAnswers = <<>>]_vars
    /\ [](page.generateStatus \in {"pending", "error"} =>
             page.currentQuestion = 0 /\ page.userAnswers = <<>>)

\* a submission of the second quiz, after a retake, is on its way
C24_Witness ==
    /\ page.generated = 2
    /\ Len(quizAttempts) = 1
    /\ page.sending # <<>>
    /\ page.sending[1].questions = page.generateData.questions
    /\ page.sending[1].questions # quizAttempts[1].questions

====
